---- MODULE Spec2Model ----
(***************************************************************************)
(* Model of src/actions/base.py: the MoveCommand, ActionConfig and         *)
(* AgentAction records and the ActionConnector abstract base class.        *)
(*                                                                         *)
(* Python floats are represented in tenths: 5 stands for 0.5, 10 for 1.0.  *)
(* Objects live in heaps (sequences); an object's identity is its index,   *)
(* and a reference to an object is that index.                             *)
(*                                                                         *)
(* SpecData evaluates the records' constructors and comparisons as         *)
(* functions of their inputs.  Spec is a single-threaded program that      *)
(* constructs objects and drives connectors; FairSpec adds the passing of  *)
(* time.                                                                   *)
(***************************************************************************)
EXTENDS Integers, Sequences, FiniteSets, TLC

VARIABLES
    input,         \* the call the record specification evaluates
    last,          \* the operation performed last, its inputs and its outcome
    moves,         \* heap of MoveCommand objects
    configs,       \* heap of ActionConfig objects: each its instance __dict__
    connectors,    \* heap of connector objects: [cls, config], and the argument given
                   \* to the constructor (given: history, the program never reads it)
    agentActions,  \* heap of AgentAction objects
    connectPc,     \* per connector: position of its connect coroutine
    tickPc,        \* per connector: position of its tick call
    running,       \* the connector whose code holds the thread, 0 for the scheduler
    elapsed        \* seconds slept so far by the time.sleep in progress

vars == <<input, last, moves, configs, connectors, agentActions, connectPc, tickPc,
          running, elapsed>>

heap == <<moves, configs, connectors, agentActions>>
sched == <<connectPc, tickPc, running, elapsed>>

\* ------------------------------------------------------------------ bounds

\* the number of objects the program constructs
MaxObjects == 4
\* granularity of the clock, in seconds
TimeStep == 15

\* ------------------------------------------------------------- MoveCommand

Restrict(f, S) == [k \in S |-> f[k]]

MoveCommandFields == <<"dx", "yaw", "start_x", "start_y", "turn_complete", "speed">>

\* Variant: speed defaults to 0.0.
MoveCommandDefaultsSlow == [start_x |-> 0, start_y |-> 0, turn_complete |-> FALSE, speed |-> 0]

MoveCommandDefaults == [start_x |-> 0, start_y |-> 0, turn_complete |-> FALSE, speed |-> 5]

Range(s) == {s[i] : i \in 1..Len(s)}

\* The dataclass-generated __init__(**args): a field without a default that is
\* not supplied is a TypeError; a field with a default that is not supplied
\* takes it.
DataclassInit(fields, defaults, args) ==
    IF (Range(fields) \ DOMAIN defaults) \subseteq DOMAIN args
    THEN [ok |-> TRUE,
          obj |-> [f \in Range(fields) |->
                      IF f \in DOMAIN args THEN args[f] ELSE defaults[f]]]
    ELSE [ok |-> FALSE, error |-> "TypeError"]

MoveCommandNew(args) == DataclassInit(MoveCommandFields, MoveCommandDefaults, args)

\* The dataclass-generated __eq__ of two instances of one class: the tuples of
\* the declared fields are compared.
DataclassEq(fields, a, b) == \A i \in 1..Len(fields) : a[fields[i]] = b[fields[i]]

MoveCommandEq(a, b) == DataclassEq(MoveCommandFields, a, b)

\* ------------------------------------------------------------ ActionConfig

\* ActionConfig declares no annotated field.
ActionConfigFields == <<>>

\* setattr(self, key, value) on an instance __dict__
SetAttr(dict, key, value) ==
    [k \in (DOMAIN dict) \cup {key} |-> IF k = key THEN value ELSE dict[k]]

RECURSIVE SetAll(_, _, _)
\* for key, value in kwargs.items(): setattr(self, key, value)
SetAll(dict, kwargs, todo) ==
    IF todo = {} THEN dict
    ELSE LET key == CHOOSE k \in todo : TRUE
         IN  SetAll(SetAttr(dict, key, kwargs[key]), kwargs, todo \ {key})

\* ActionConfig(**kwargs) with __init__(self, **kwargs): the name self is
\* already bound to the instance, so a keyword named self is a TypeError
\* ("got multiple values for argument 'self'") raised before the body runs.
ActionConfigNew(kwargs) ==
    IF "self" \in DOMAIN kwargs
    THEN [ok |-> FALSE, error |-> "TypeError"]
    ELSE [ok |-> TRUE, obj |-> SetAll(<<>>, kwargs, DOMAIN kwargs)]

\* Variant: equality of the instance __dict__s, as for a class that compares
\* its attributes.
ActionConfigEqByDict(a, b) == a = b

ActionConfigEq(a, b) == DataclassEq(ActionConfigFields, a, b)

\* ------------------------------------------------------------------ inputs

FieldSet == Range(MoveCommandFields)

MoveArgs ==
    {Restrict(r, S) :
        r \in [dx : {0, 10}, yaw : {0, 10}, start_x : {0, 10}, start_y : {0, 10},
               turn_complete : BOOLEAN, speed : {5, 10}],
        S \in SUBSET FieldSet}

MoveObjects == {MoveCommandNew(args).obj : args \in {x \in MoveArgs : MoveCommandNew(x).ok}}

Keys == {"host", "port", "self"}
Values == {1, 2}

Kwargs == UNION {[S -> Values] : S \in SUBSET Keys}

ConfigObjects == {ActionConfigNew(kw).obj : kw \in {x \in Kwargs : ActionConfigNew(x).ok}}

\* -------------------------------------------------------------------- Init

Init ==
    /\ input = [op |-> "none"]
    /\ last = [op |-> "none"]
    /\ moves = <<>>
    /\ configs = <<>>
    /\ connectors = <<>>
    /\ agentActions = <<>>
    /\ connectPc = <<>>
    /\ tickPc = <<>>
    /\ running = 0
    /\ elapsed = 0

\* ------------------------------------------------- the records, as values

\* The calls on the records: a construction or a comparison, with its inputs.
Calls ==
    [op : {"MoveCommand"}, args : MoveArgs]
    \cup [op : {"ActionConfig"}, args : Kwargs]
    \cup [op : {"MoveCommand.__eq__"}, a : MoveObjects, b : MoveObjects]
    \cup [op : {"ActionConfig.__eq__"}, a : ConfigObjects, b : ConfigObjects]

InitData ==
    /\ input \in Calls
    /\ last = [op |-> "none"]
    /\ moves = <<>>
    /\ configs = <<>>
    /\ connectors = <<>>
    /\ agentActions = <<>>
    /\ connectPc = <<>>
    /\ tickPc = <<>>
    /\ running = 0
    /\ elapsed = 0

EvalMoveCommand ==
    /\ input.op = "MoveCommand" /\ last.op = "none"
    /\ last' = [op |-> input.op, args |-> input.args, res |-> MoveCommandNew(input.args)]
    /\ UNCHANGED <<input, heap, sched>>

EvalActionConfig ==
    /\ input.op = "ActionConfig" /\ last.op = "none"
    /\ last' = [op |-> input.op, args |-> input.args, res |-> ActionConfigNew(input.args)]
    /\ UNCHANGED <<input, heap, sched>>

EvalMoveCommandEq ==
    /\ input.op = "MoveCommand.__eq__" /\ last.op = "none"
    /\ last' = [op |-> input.op, a |-> input.a, b |-> input.b,
                res |-> MoveCommandEq(input.a, input.b)]
    /\ UNCHANGED <<input, heap, sched>>

EvalActionConfigEq ==
    /\ input.op = "ActionConfig.__eq__" /\ last.op = "none"
    /\ last' = [op |-> input.op, a |-> input.a, b |-> input.b,
                res |-> ActionConfigEq(input.a, input.b)]
    /\ UNCHANGED <<input, heap, sched>>

NextData ==
    \/ EvalMoveCommand
    \/ EvalActionConfig
    \/ EvalMoveCommandEq
    \/ EvalActionConfigEq

SpecData == InitData /\ [][NextData]_vars

\* --------------------------------------------------------- ActionConnector

SleepSeconds == 60

ConnectorMethods == {"connect", "tick"}

\* ActionConnector and the shapes a subclass of it can take: the methods its
\* class body defines.
Classes == {"ActionConnector", "SubNeither", "SubTick", "SubConnect", "SubBoth"}

Defines(cls) ==
    CASE cls = "ActionConnector" -> {"connect", "tick"}
      [] cls = "SubNeither" -> {}
      [] cls = "SubTick" -> {"tick"}
      [] cls = "SubConnect" -> {"connect"}
      [] cls = "SubBoth" -> {"connect", "tick"}

\* the definitions decorated with @abstractmethod
IsAbstractDef(cls, m) == cls = "ActionConnector" /\ m = "connect"

\* Variant: the base class's definition always wins.
LookupBaseOnly(cls, m) == "ActionConnector"

\* method resolution: the class whose definition of m an instance of cls runs
Lookup(cls, m) == IF m \in Defines(cls) THEN cls ELSE "ActionConnector"

\* Variant: no abstract-method enforcement (a base class that is not an ABC).
AbstractMethodsUnenforced(cls) == {}

\* ABC: the methods of cls that resolve to an abstract definition; a class
\* with any cannot be instantiated
AbstractMethods(cls) == {m \in ConnectorMethods : IsAbstractDef(Lookup(cls, m), m)}

\* ------------------------------------------------------------- AgentAction

AgentActionFields == <<"name", "llm_label", "interface", "connector", "exclude_from_prompt">>

\* no field of AgentAction has a default
AgentActionDefaults == <<>>

AgentActionNew(args) == DataclassInit(AgentActionFields, AgentActionDefaults, args)

\* --------------------------------------------------- inputs of the program

ProgramMoveArgs == {[dx |-> 10, yaw |-> 0], [dx |-> 10]}

ProgramKwargs == {<<>>, [host |-> 1], [self |-> 1]}

ProgramKeys == {"host"}

AgentActionArgs ==
    LET full == [name : {"move"}, llm_label : {"walk"}, interface : {"Interface"},
                 connector : DOMAIN connectors, exclude_from_prompt : BOOLEAN]
    IN  full \cup {Restrict(r, Range(AgentActionFields) \ {f}) :
                       r \in full, f \in Range(AgentActionFields)}

\* ------------------------------------------------- the program's operations

HeapSize == Len(moves) + Len(configs) + Len(connectors) + Len(agentActions)

\* One thread: the program constructs objects and calls connectors only while
\* no connector's code holds the thread (running = 0).

NewMoveCommand(args) ==
    /\ running = 0
    /\ HeapSize < MaxObjects
    /\ LET res == MoveCommandNew(args)
       IN  /\ moves' = IF res.ok THEN Append(moves, res.obj) ELSE moves
           /\ last' = [op |-> "MoveCommand", args |-> args, res |-> res]
    /\ UNCHANGED <<input, configs, connectors, agentActions, sched>>

NewActionConfig(kwargs) ==
    /\ running = 0
    /\ HeapSize < MaxObjects
    /\ LET res == ActionConfigNew(kwargs)
       IN  /\ configs' = IF res.ok THEN Append(configs, res.obj) ELSE configs
           /\ last' = [op |-> "ActionConfig", args |-> kwargs, res |-> res]
    /\ UNCHANGED <<input, moves, connectors, agentActions, sched>>

\* connector.config.key = value
SetConfigAttr(c, key, value) ==
    /\ running = 0
    /\ c \in DOMAIN connectors
    /\ configs' = [configs EXCEPT ![connectors[c].config] = SetAttr(@, key, value)]
    /\ last' = [op |-> "setattr", connector |-> c, key |-> key, value |-> value]
    /\ UNCHANGED <<input, moves, connectors, agentActions, sched>>

\* Variant: __init__ stores a copy of the config it is given.
InstantiateCopying(cls, cfg) ==
    /\ running = 0
    /\ cfg \in DOMAIN configs
    /\ HeapSize < MaxObjects
    /\ AbstractMethods(cls) = {}
    /\ configs' = Append(configs, configs[cfg])
    /\ connectors' = Append(connectors, [cls |-> cls, config |-> Len(configs) + 1, given |-> cfg])
    /\ connectPc' = Append(connectPc, "idle")
    /\ tickPc' = Append(tickPc, "idle")
    /\ last' = [op |-> "ActionConnector", cls |-> cls, config |-> cfg, ok |-> TRUE]
    /\ UNCHANGED <<input, moves, agentActions, running, elapsed>>

\* cls(config): object creation fails for a class with abstract methods, before
\* __init__ runs; otherwise __init__ stores the reference it is given.
Instantiate(cls, cfg) ==
    /\ running = 0
    /\ cfg \in DOMAIN configs
    /\ IF AbstractMethods(cls) # {}
       THEN /\ last' = [op |-> "ActionConnector", cls |-> cls, config |-> cfg,
                        ok |-> FALSE, error |-> "TypeError"]
            /\ UNCHANGED <<connectors, connectPc, tickPc>>
       ELSE /\ HeapSize < MaxObjects
            /\ connectors' = Append(connectors, [cls |-> cls, config |-> cfg, given |-> cfg])
            /\ connectPc' = Append(connectPc, "idle")
            /\ tickPc' = Append(tickPc, "idle")
            /\ last' = [op |-> "ActionConnector", cls |-> cls, config |-> cfg, ok |-> TRUE]
    /\ UNCHANGED <<input, moves, configs, agentActions, running, elapsed>>

\* Variant: the record holds a copy of the connector it is given.
NewAgentActionCopying(args) ==
    /\ running = 0
    /\ HeapSize < MaxObjects
    /\ AgentActionNew(args).ok
    /\ connectors' = Append(connectors, connectors[args.connector])
    /\ connectPc' = Append(connectPc, "idle")
    /\ tickPc' = Append(tickPc, "idle")
    /\ agentActions' = Append(agentActions,
                              [AgentActionNew(args).obj EXCEPT !.connector = Len(connectors) + 1])
    /\ last' = [op |-> "AgentAction", args |-> args, res |-> AgentActionNew(args)]
    /\ UNCHANGED <<input, moves, configs, running, elapsed>>

NewAgentAction(args) ==
    /\ running = 0
    /\ HeapSize < MaxObjects
    /\ LET res == AgentActionNew(args)
       IN  /\ agentActions' = IF res.ok THEN Append(agentActions, res.obj) ELSE agentActions
           /\ last' = [op |-> "AgentAction", args |-> args, res |-> res]
    /\ UNCHANGED <<input, moves, configs, connectors, sched>>

\* ---------------------------------------------------------------- connect
\* connect is a coroutine (async def): the scheduler starts it, it may suspend
\* at an await of its body, giving the thread back, and is resumed later.

ConnectStart(c) ==
    /\ running = 0
    /\ c \in DOMAIN connectors
    /\ connectPc[c] = "idle"
    /\ connectPc' = [connectPc EXCEPT ![c] = "running"]
    /\ running' = c
    /\ last' = [op |-> "connect", connector |-> c, event |-> "call"]
    /\ UNCHANGED <<input, heap, tickPc, elapsed>>

ConnectAwait(c) ==
    /\ running = c
    /\ c \in DOMAIN connectors
    /\ connectPc[c] = "running"
    /\ connectPc' = [connectPc EXCEPT ![c] = "awaiting"]
    /\ running' = 0
    /\ last' = [op |-> "connect", connector |-> c, event |-> "await"]
    /\ UNCHANGED <<input, heap, tickPc, elapsed>>

ConnectResume(c) ==
    /\ running = 0
    /\ c \in DOMAIN connectors
    /\ connectPc[c] = "awaiting"
    /\ connectPc' = [connectPc EXCEPT ![c] = "running"]
    /\ running' = c
    /\ last' = [op |-> "connect", connector |-> c, event |-> "resume"]
    /\ UNCHANGED <<input, heap, tickPc, elapsed>>

ConnectReturn(c) ==
    /\ running = c
    /\ c \in DOMAIN connectors
    /\ connectPc[c] = "running"
    /\ connectPc' = [connectPc EXCEPT ![c] = "idle"]
    /\ running' = 0
    /\ last' = [op |-> "connect", connector |-> c, event |-> "return", result |-> "None"]
    /\ UNCHANGED <<input, heap, tickPc, elapsed>>

\* ------------------------------------------------------------------- tick
\* tick is an ordinary function (def): the call keeps the thread until it
\* returns. The default body is time.sleep(60).

\* Variant: a default tick that suspends (a coroutine awaiting its sleep),
\* giving the thread back while it sleeps.
TickCallSuspending(c) ==
    /\ running = 0
    /\ c \in DOMAIN connectors
    /\ tickPc[c] = "idle"
    /\ Lookup(connectors[c].cls, "tick") = "ActionConnector"
    /\ tickPc' = [tickPc EXCEPT ![c] = "sleeping"]
    /\ elapsed' = 0
    /\ running' = 0
    /\ last' = [op |-> "tick", connector |-> c, event |-> "call"]
    /\ UNCHANGED <<input, heap, connectPc>>

TickCall(c) ==
    /\ running = 0
    /\ c \in DOMAIN connectors
    /\ tickPc[c] = "idle"
    /\ IF Lookup(connectors[c].cls, "tick") = "ActionConnector"
       THEN /\ tickPc' = [tickPc EXCEPT ![c] = "sleeping"]
                    /\ elapsed' = 0
       ELSE /\ tickPc' = [tickPc EXCEPT ![c] = "own"]
            /\ UNCHANGED elapsed
    /\ running' = c
    /\ last' = [op |-> "tick", connector |-> c, event |-> "call"]
    /\ UNCHANGED <<input, heap, connectPc>>

\* time passes while time.sleep(60) has not yet slept its 60 seconds
Sleep(c) ==
    /\ c \in DOMAIN connectors
    /\ tickPc[c] = "sleeping"
    /\ elapsed < SleepSeconds
    /\ elapsed' = elapsed + TimeStep
    /\ last' = [op |-> "tick", connector |-> c, event |-> "sleep"]
    /\ UNCHANGED <<input, heap, connectPc, tickPc, running>>

\* Variant: the sleep may end before its time.
DefaultTickReturnEarly(c) ==
    /\ c \in DOMAIN connectors
    /\ tickPc[c] = "sleeping"
    /\ tickPc' = [tickPc EXCEPT ![c] = "idle"]
    /\ running' = 0
    /\ elapsed' = 0
    /\ last' = [op |-> "tick", connector |-> c, event |-> "return", impl |-> "default",
                slept |-> elapsed, result |-> "None"]
    /\ UNCHANGED <<input, heap, connectPc>>

\* Variant: tick records on the config how long it slept.
DefaultTickReturnStamping(c) ==
    /\ c \in DOMAIN connectors
    /\ tickPc[c] = "sleeping"
    /\ elapsed >= SleepSeconds
    /\ tickPc' = [tickPc EXCEPT ![c] = "idle"]
    /\ running' = 0
    /\ elapsed' = 0
    /\ configs' = [configs EXCEPT ![connectors[c].config] = SetAttr(@, "last_tick", elapsed)]
    /\ last' = [op |-> "tick", connector |-> c, event |-> "return", impl |-> "default",
                slept |-> elapsed, result |-> "None"]
    /\ UNCHANGED <<input, moves, connectors, agentActions, connectPc>>

\* time.sleep(60) returns once at least 60 seconds have passed, and tick
\* returns None
DefaultTickReturn(c) ==
    /\ c \in DOMAIN connectors
    /\ tickPc[c] = "sleeping"
    /\ elapsed >= SleepSeconds
    /\ tickPc' = [tickPc EXCEPT ![c] = "idle"]
    /\ running' = 0
    /\ elapsed' = 0
    /\ last' = [op |-> "tick", connector |-> c, event |-> "return", impl |-> "default",
                slept |-> elapsed, result |-> "None"]
    /\ UNCHANGED <<input, heap, connectPc>>

\* the return of a subclass's own tick
OwnTickReturn(c) ==
    /\ c \in DOMAIN connectors
    /\ tickPc[c] = "own"
    /\ tickPc' = [tickPc EXCEPT ![c] = "idle"]
    /\ running' = 0
    /\ last' = [op |-> "tick", connector |-> c, event |-> "return", impl |-> "own"]
    /\ UNCHANGED <<input, heap, connectPc, elapsed>>

Connectors == 1..MaxObjects

Next ==
    \/ \E args \in ProgramMoveArgs : NewMoveCommand(args)
    \/ \E kwargs \in ProgramKwargs : NewActionConfig(kwargs)
    \/ \E c \in Connectors, key \in ProgramKeys, value \in Values : SetConfigAttr(c, key, value)
    \/ \E cls \in Classes, cfg \in 1..MaxObjects : Instantiate(cls, cfg)
    \/ \E args \in AgentActionArgs : NewAgentAction(args)
    \/ \E c \in Connectors : ConnectStart(c)
    \/ \E c \in Connectors : ConnectAwait(c)
    \/ \E c \in Connectors : ConnectResume(c)
    \/ \E c \in Connectors : ConnectReturn(c)
    \/ \E c \in Connectors : TickCall(c)
    \/ \E c \in Connectors : Sleep(c)
    \/ \E c \in Connectors : DefaultTickReturn(c)
    \/ \E c \in Connectors : OwnTickReturn(c)

Spec == Init /\ [][Next]_vars

\* Time passes, and a sleep that has lasted its time ends.
FairSpec ==
    /\ Spec
    /\ \A c \in Connectors : WF_vars(Sleep(c)) /\ WF_vars(DefaultTickReturn(c))

\* ------------------------------------------------------------------ claims

\* C1: a MoveCommand constructed with only dx and yaw has start_x = 0.0,
\* start_y = 0.0, turn_complete = False and speed = 0.5, and dx and yaw hold
\* exactly the values supplied.
C1_MoveCommandDefaults ==
    (last.op = "MoveCommand" /\ DOMAIN last.args = {"dx", "yaw"}) =>
        /\ last.res.ok
        /\ last.res.obj.start_x = 0
        /\ last.res.obj.start_y = 0
        /\ last.res.obj.turn_complete = FALSE
        /\ last.res.obj.speed = 5
        /\ last.res.obj.dx = last.args.dx
        /\ last.res.obj.yaw = last.args.yaw

C1_Witness ==
    /\ last.op = "MoveCommand"
    /\ DOMAIN last.args = {"dx", "yaw"}
    /\ last.args.dx = 10
    /\ last.res.ok
    /\ last.res.obj.speed = 5

\* C2: an ActionConfig constructed with arbitrary keyword arguments is
\* constructed without error, and its instance attributes are exactly the
\* keyword arguments supplied, each holding the value supplied.
C2_EveryKeywordBecomesAttribute ==
    last.op = "ActionConfig" =>
        /\ last.res.ok
        /\ DOMAIN last.res.obj = DOMAIN last.args
        /\ \A k \in DOMAIN last.args : last.res.obj[k] = last.args[k]

\* C10: any two ActionConfig instances compare equal whatever they were
\* constructed with, and two MoveCommand records are equal exactly when all
\* six fields are equal.
C10_Equality ==
    /\ last.op = "ActionConfig.__eq__" => last.res = TRUE
    /\ last.op = "MoveCommand.__eq__" =>
          (last.res <=>
              /\ last.a.dx = last.b.dx
              /\ last.a.yaw = last.b.yaw
              /\ last.a.start_x = last.b.start_x
              /\ last.a.start_y = last.b.start_y
              /\ last.a.turn_complete = last.b.turn_complete
              /\ last.a.speed = last.b.speed)

C10_Witness ==
    /\ last.op = "ActionConfig.__eq__"
    /\ DOMAIN last.a = {"host"}
    /\ DOMAIN last.b = {"host"}
    /\ last.a.host = 1
    /\ last.b.host = 2
    /\ last.res = TRUE

\* C3: a subclass of ActionConnector that does not supply connect, and
\* ActionConnector itself, cannot be instantiated: the attempt ends in a
\* TypeError and no connector object of such a class ever exists.
C3_AbstractNotInstantiable ==
    /\ \A c \in DOMAIN connectors : connectors[c].cls \in {"SubConnect", "SubBoth"}
    /\ (last.op = "ActionConnector" /\ last.cls \notin {"SubConnect", "SubBoth"}) =>
          (~last.ok /\ last.error = "TypeError")

C3_Witness ==
    /\ last.op = "ActionConnector"
    /\ last.cls = "SubTick"
    /\ ~last.ok
    /\ connectors = <<>>

\* C4: a default tick that returns has slept at least 60 seconds and returns
\* None, and every default tick in progress eventually returns.
C4_TickSleepsThenReturns ==
    /\ [](  (last.op = "tick" /\ last.event = "return" /\ last.impl = "default") =>
               (last.slept >= 60 /\ last.result = "None"))
    /\ \A c \in Connectors :
          (c \in DOMAIN tickPc /\ tickPc[c] = "sleeping")
              ~> (c \in DOMAIN tickPc /\ tickPc[c] = "idle")

C4_Witness ==
    /\ last.op = "tick"
    /\ last.event = "return"
    /\ last.impl = "default"
    /\ last.slept >= 60
    /\ tickPc[last.connector] = "idle"

\* C5: between the call and the return of a default tick no step of any
\* connector's connect and no step of another connector's tick takes place.
C5_TickBlocksTheThread ==
    [][\A c \in DOMAIN tickPc :
          tickPc[c] = "sleeping" =>
              /\ connectPc' = connectPc
              /\ \A d \in DOMAIN tickPc : d # c => tickPc'[d] = tickPc[d]]_vars

C5_Witness ==
    /\ Len(connectors) = 2
    /\ tickPc[1] = "sleeping"
    /\ elapsed > 0
    /\ connectPc[2] = "awaiting"
    /\ running = 1

\* C6: a class can be instantiated exactly when it is a subclass that supplies
\* connect; the tick of a connector whose class supplies no tick is the
\* default sleep, and a connector whose class supplies tick runs its own tick
\* and never the default sleep.
C6_ConnectRequiredTickDefaulted ==
    /\ last.op = "ActionConnector" =>
          (last.ok <=> (last.cls # "ActionConnector" /\ "connect" \in Defines(last.cls)))
    /\ \A c \in DOMAIN connectors :
          /\ tickPc[c] = "sleeping" => "tick" \notin Defines(connectors[c].cls)
          /\ tickPc[c] = "own" => "tick" \in Defines(connectors[c].cls)
    /\ (last.op = "tick" /\ last.event = "call") =>
          tickPc[last.connector] =
              IF "tick" \in Defines(connectors[last.connector].cls) THEN "own" ELSE "sleeping"

C6_Witness ==
    /\ Len(connectors) = 2
    /\ connectors[1].cls = "SubConnect"
    /\ connectors[2].cls = "SubBoth"
    /\ tickPc[1] = "sleeping"
    /\ elapsed >= 60

\* C7: constructing an AgentAction needs all five fields, stores them exactly
\* as supplied (the connector field is the reference supplied), and changes
\* nothing else: no connector is called, created or modified, and no config
\* is changed.
C7_AgentActionIsComposition ==
    /\ [](last.op = "AgentAction" =>
            /\ last.res.ok <=> (DOMAIN last.args = Range(AgentActionFields))
            /\ last.res.ok =>
                  /\ agentActions # <<>>
                  /\ agentActions[Len(agentActions)] = last.args)
    /\ [][agentActions' # agentActions =>
            /\ UNCHANGED <<moves, configs, connectors, connectPc, tickPc, running, elapsed>>
            /\ Len(agentActions') = Len(agentActions) + 1
            /\ SubSeq(agentActions', 1, Len(agentActions)) = agentActions]_vars

C7_Witness ==
    /\ last.op = "AgentAction"
    /\ last.res.ok
    /\ agentActions[1].connector = 2
    /\ agentActions[1].exclude_from_prompt = TRUE
    /\ configs[connectors[2].config] = [host |-> 2]

\* C8: no step of a default tick (its call, its sleep, its return) changes
\* any MoveCommand, ActionConfig, connector or AgentAction.
C8_TickChangesNoState ==
    [][(/\ last'.op = "tick"
        /\ last' # last
        /\ "tick" \notin Defines(connectors[last'.connector].cls))
          => UNCHANGED <<moves, configs, connectors, agentActions>>]_vars

C8_Witness ==
    /\ last.op = "tick"
    /\ last.event = "return"
    /\ last.impl = "default"
    /\ configs[connectors[last.connector].config] = [host |-> 2]
    /\ agentActions # <<>>
    /\ moves # <<>>

\* C9, amended: a connector keeps the ActionConfig it is given by reference,
\* and an attribute set through one connector is observed through every
\* connector that was built from the same ActionConfig object.
C9_ConfigHeldByReference ==
    /\ \A c \in DOMAIN connectors : connectors[c].config = connectors[c].given
    /\ last.op = "setattr" =>
          \A d \in DOMAIN connectors :
              connectors[d].given = connectors[last.connector].given =>
                  /\ last.key \in DOMAIN configs[connectors[d].config]
                  /\ configs[connectors[d].config][last.key] = last.value

C9_Witness ==
    /\ last.op = "setattr"
    /\ last.connector = 1
    /\ last.value = 2
    /\ Len(connectors) = 2
    /\ connectors[2].given = connectors[1].given
    /\ configs[connectors[2].config] = [host |-> 2]

\* C9 as stated: connectors hold no shared mutable state (no two connectors
\* reach the same ActionConfig object), the config is kept by reference, and an
\* attribute set through one connector is observed through the other.
C9_NoSharedMutableState ==
    /\ C9_ConfigHeldByReference
    /\ \A c, d \in DOMAIN connectors : c # d => connectors[c].config # connectors[d].config

====
